---- MODULE Spec2Model ----
(***************************************************************************)
(* Model of the UR5e policy transforms of openpi                           *)
(* (src/openpi/policies/ur5e_policy.py): _parse_image, UR5Inputs.__call__  *)
(* and UR5Outputs.__call__.                                                *)
(*                                                                         *)
(* A numpy array is a record [dtype, shape, flat]: shape is the tuple of   *)
(* dimensions and flat the elements in row-major (C) order.  Elements of a *)
(* floating-point IMAGE are kept as numerators over FloatDen (a power of   *)
(* two, so the products below are exact in binary floating point); all     *)
(* other elements are integers standing for themselves.                    *)
(***************************************************************************)
EXTENDS Integers, Sequences, FiniteSets, TLC

VARIABLES
    model_type,    \* UR5Inputs.model_type (frozen dataclass field)
    data,          \* the caller's observation mapping (the dict object handed to UR5Inputs)
    passed,        \* what that mapping held when the last UR5Inputs call began
    inputs,        \* outcome of the last UR5Inputs call
    raw_action,    \* mapping handed to UR5Outputs
    robot_action,  \* outcome of the UR5Outputs call
    image_in,      \* argument of _parse_image
    image_out      \* outcome of the _parse_image call

vars == <<model_type, passed, data, inputs, raw_action, robot_action, image_in, image_out>>

----------------------------------------------------------------------------
(* Bounds of the model *)

MaxJoints == 8      \* longest 1-D joints vector
MaxDim == 3         \* largest image height / width
MaxSteps == 2       \* most time steps T of a raw action
MaxCols == 9        \* most columns D of a raw action
FloatBits == 2      \* float pixels are k/2^FloatBits, k in 0..2^FloatBits

(* Program constants *)

ActionDim == 7      \* data["actions"][:, :7]
ChannelFirst == 3   \* image.shape[0] == 3
ByteScale == 255    \* 255 * image

FloatDen == 2 ^ FloatBits

----------------------------------------------------------------------------
(* numpy helpers *)

Min(a, b) == IF a < b THEN a ELSE b

RECURSIVE Prod(_)
Prod(s) == IF s = <<>> THEN 1 ELSE Head(s) * Prod(Tail(s))

ndim(a) == Len(a.shape)

Array(dtype, shape, flat) == [dtype |-> dtype, shape |-> shape, flat |-> flat]

IsFloating(dtype) == dtype \in {"float16", "float32", "float64"}

\* numpy type promotion among the dtypes used for states
Promote(d1, d2) == IF "float64" \in {d1, d2} THEN "float64" ELSE d1

Ok(v) == [ok |-> TRUE, val |-> v]
Raise(e) == [ok |-> FALSE, exc |-> e]

\* np.asarray: an ndarray is returned as is, a Python list of numbers becomes
\* a 1-D array, a Python float a 0-D float64 array.
asarray(x) ==
    IF "py" \notin DOMAIN x THEN x
    ELSE IF x.py = "list" THEN Array(x.dtype, <<Len(x.items)>>, x.items)
    ELSE Array("float64", <<>>, <<x.val>>)

\* a[np.newaxis] on a 0-D array
newaxis(a) == Array(a.dtype, <<1>> \o a.shape, a.flat)

\* np.concatenate([a, b]) along axis 0
concatenate(a, b) ==
    IF ndim(a) = 0 \/ ndim(b) = 0 THEN Raise("ValueError")
    ELSE IF ndim(a) # ndim(b) THEN Raise("ValueError")
    ELSE IF Tail(a.shape) # Tail(b.shape) THEN Raise("ValueError")
    ELSE Ok(Array(Promote(a.dtype, b.dtype),
                  <<a.shape[1] + b.shape[1]>> \o Tail(a.shape),
                  a.flat \o b.flat))

zeros(n, dtype) == Array(dtype, <<n>>, [i \in 1..n |-> 0])

zeros_like(a) == Array(a.dtype, a.shape, [i \in 1..Len(a.flat) |-> 0])

----------------------------------------------------------------------------
(* _parse_image *)

\* (255 * image).astype(np.uint8) on one element k/FloatDen: the product is
\* truncated toward zero.  Defined for products in 0..255 only; the cast of
\* any other value is undefined in C and such pixels are not generated.
ScaleToUint8(k) ==
    CASE (ByteScale * k) \div FloatDen \in 0..255 -> (ByteScale * k) \div FloatDen

FloatToUint8(image) ==
    Array("uint8", image.shape, [i \in 1..Len(image.flat) |-> ScaleToUint8(image.flat[i])])

\* mutant of RearrangeCHW: the pattern "c h w -> w h c"
RearrangeCHW_Transposed(image) ==
    LET C == image.shape[1]
        H == image.shape[2]
        W == image.shape[3]
    IN  Array(image.dtype, <<W, H, C>>,
              [k \in 1..(C * H * W) |->
                  LET c == (k - 1) % C
                      h == ((k - 1) \div C) % H
                      w == (k - 1) \div (C * H)
                  IN  image.flat[(c * H + h) * W + w + 1]])

\* einops.rearrange(image, "c h w -> h w c") on a 3-D array
RearrangeCHW(image) ==
    LET C == image.shape[1]
        H == image.shape[2]
        W == image.shape[3]
    IN  Array(image.dtype, <<H, W, C>>,
              [k \in 1..(C * H * W) |->
                  LET c == (k - 1) % C
                      w == ((k - 1) \div C) % W
                      h == (k - 1) \div (C * W)
                  IN  image.flat[(c * H + h) * W + w + 1]])

_parse_image(img) ==
    LET image0 == asarray(img)
        image1 == IF IsFloating(image0.dtype) THEN FloatToUint8(image0) ELSE image0
    IN  IF ndim(image1) = 0 THEN Raise("IndexError")
        ELSE IF image1.shape[1] = ChannelFirst
             THEN IF ndim(image1) = 3 THEN Ok(RearrangeCHW(image1))
                  ELSE Raise("EinopsError")
        ELSE Ok(image1)

----------------------------------------------------------------------------
(* UR5Inputs.__call__ *)

KeyJoints == "observation/joints"
KeyGripper == "observation/gripper_position"
KeyBase == "observation/base_rgb"
KeyWrist == "observation/wrist_rgb"

\* bytes.decode("utf-8"): strict decoding of a byte sequence into a sequence
\* of code points; ill-formed input raises UnicodeDecodeError.
IsCont(b) == b \in 128..191

RECURSIVE Utf8Decode(_)
Utf8Decode(b) ==
    IF b = <<>> THEN Ok(<<>>)
    ELSE LET b1 == b[1]
             n == IF b1 <= 127 THEN 1
                  ELSE IF b1 \in 194..223 THEN 2
                  ELSE IF b1 \in 224..239 THEN 3
                  ELSE IF b1 \in 240..244 THEN 4
                  ELSE 0
         IN  IF n = 0 \/ Len(b) < n THEN Raise("UnicodeDecodeError")
             ELSE IF \E i \in 2..n : ~IsCont(b[i]) THEN Raise("UnicodeDecodeError")
             ELSE IF (b1 = 224 /\ b[2] < 160) \/ (b1 = 237 /\ b[2] > 159)
                     \/ (b1 = 240 /\ b[2] < 144) \/ (b1 = 244 /\ b[2] > 143)
                  THEN Raise("UnicodeDecodeError")
             ELSE LET cp == CASE n = 1 -> b1
                              [] n = 2 -> (b1 - 192) * 64 + (b[2] - 128)
                              [] n = 3 -> (b1 - 224) * 4096 + (b[2] - 128) * 64 + (b[3] - 128)
                              [] n = 4 -> (b1 - 240) * 262144 + (b[2] - 128) * 4096
                                          + (b[3] - 128) * 64 + (b[4] - 128)
                      rest == Utf8Decode(SubSeq(b, n + 1, Len(b)))
                  IN  IF rest.ok THEN Ok(<<cp>> \o rest.val) ELSE rest

Str(cps) == [type |-> "str", val |-> cps]
Bytes(bs) == [type |-> "bytes", val |-> bs]

\* mutant of PromoteGripper: the 0-D value is concatenated as it is
PromoteGripper_Skipped(gripper_pos) == gripper_pos

\* gripper_pos[np.newaxis] when gripper_pos.ndim == 0 (lines 72-74)
PromoteGripper(gripper_pos) ==
    IF ndim(gripper_pos) = 0 THEN newaxis(gripper_pos) ELSE gripper_pos

\* mutant of AppendPlaceholder: np.ones in place of np.zeros
AppendPlaceholder_Ones(joints) ==
    concatenate(joints, Array(joints.dtype, <<1>>, <<1>>))

\* np.concatenate([joints, np.zeros(1, dtype=joints.dtype)]) (line 81)
AppendPlaceholder(joints) == concatenate(joints, zeros(1, joints.dtype))

\* lines 65-83: the state vector, or the exception raised
ComposeState(d) ==
    LET joints == asarray(d[KeyJoints])
    IN  IF ndim(joints) # 1 THEN Raise("ValueError")
        ELSE IF KeyGripper \in DOMAIN d
             THEN concatenate(joints, PromoteGripper(asarray(d[KeyGripper])))
        ELSE IF joints.shape[1] = 7 THEN Ok(joints)
        ELSE IF joints.shape[1] = 6 THEN AppendPlaceholder(joints)
        ELSE Raise("ValueError")

\* mutant of RightWristMask: the two mask values exchanged
RightWristMask_Swapped(mt) == IF mt = "PI0_FAST" THEN FALSE ELSE TRUE

\* line 104
RightWristMask(mt) == IF mt = "PI0_FAST" THEN TRUE ELSE FALSE

\* mutant of RightWristImage: the base image reused for the empty slot
RightWristImage_Copy(base_image) == base_image

\* line 97
RightWristImage(base_image) == zeros_like(base_image)

\* lines 91-106
BuildInputs(mt, state, base_image, wrist_image) ==
    ("state" :> state)
    @@ ("image" :> [base_0_rgb |-> base_image,
                    left_wrist_0_rgb |-> wrist_image,
                    right_wrist_0_rgb |-> RightWristImage(base_image)])
    @@ ("image_mask" :> [base_0_rgb |-> TRUE,
                         left_wrist_0_rgb |-> TRUE,
                         right_wrist_0_rgb |-> RightWristMask(mt)])

\* lines 108-109
WithActions(d, rec) ==
    IF "actions" \in DOMAIN d THEN ("actions" :> asarray(d["actions"])) @@ rec ELSE rec

\* lines 112-114: the caller's mapping after the prompt handling
StorePrompt(d) ==
    IF "prompt" \in DOMAIN d /\ d["prompt"].type = "bytes"
    THEN [d EXCEPT !["prompt"] = Str(Utf8Decode(d["prompt"].val).val)]
    ELSE d

\* The whole call: [status, value | exc, data], where data is the caller's
\* mapping when the call ends.
UR5Inputs_call(mt, d) ==
    LET st == ComposeState(d)
        base == _parse_image(d[KeyBase])
        wrist == _parse_image(d[KeyWrist])
        failed(e) == [status |-> "raised", exc |-> e, data |-> d]
    IN  IF ~st.ok THEN failed(st.exc)
        ELSE IF ~base.ok THEN failed(base.exc)
        ELSE IF ~wrist.ok THEN failed(wrist.exc)
        ELSE IF "prompt" \in DOMAIN d /\ d["prompt"].type = "bytes"
                /\ ~Utf8Decode(d["prompt"].val).ok
             THEN failed("UnicodeDecodeError")
        ELSE LET d2 == StorePrompt(d)
                 rec == WithActions(d, BuildInputs(mt, st.val, base.val, wrist.val))
             IN  [status |-> "returned",
                  value |-> IF "prompt" \in DOMAIN d2
                            THEN ("prompt" :> d2["prompt"]) @@ rec ELSE rec,
                  data |-> d2]

----------------------------------------------------------------------------
(* UR5Outputs.__call__ *)

\* mutant of SliceColumns: a[:, 1:n+1], the window shifted by one column
SliceColumns_Shifted(a, n) ==
    LET T == a.shape[1]
        D == a.shape[2]
        K == IF D >= 1 THEN Min(D - 1, n) ELSE 0
        R == Prod(SubSeq(a.shape, 3, Len(a.shape)))
    IN  Array(a.dtype, <<T, K>> \o SubSeq(a.shape, 3, Len(a.shape)),
              [i \in 1..(T * K * R) |->
                  LET r == (i - 1) % R
                      j == ((i - 1) \div R) % K
                      t == (i - 1) \div (R * K)
                  IN  a.flat[(t * D + j + 1) * R + r + 1]])

\* a[:, :n] on an array of at least two dimensions
SliceColumns(a, n) ==
    LET T == a.shape[1]
        D == a.shape[2]
        K == Min(D, n)
        R == Prod(SubSeq(a.shape, 3, Len(a.shape)))
    IN  Array(a.dtype, <<T, K>> \o SubSeq(a.shape, 3, Len(a.shape)),
              [i \in 1..(T * K * R) |->
                  LET r == (i - 1) % R
                      j == ((i - 1) \div R) % K
                      t == (i - 1) \div (R * K)
                  IN  a.flat[(t * D + j) * R + r + 1]])

\* line 126
UR5Outputs_call(d) ==
    LET a == d["actions"]
    IN  IF ndim(a) < 2 THEN [status |-> "raised", exc |-> "IndexError"]
        ELSE [status |-> "returned",
              value |-> [actions |-> asarray(SliceColumns(a, ActionDim))]]

----------------------------------------------------------------------------
(* Inputs the callers supply *)

ModelTypes == {"PI0", "PI0_FAST", "PI05"}

None == [status |-> "none"]
Absent == [absent |-> TRUE]
EmptyMap == <<>>

Opt(key, v) == IF v = Absent THEN EmptyMap ELSE key :> v

\* joints 1..n, so that a zero placeholder differs from every joint value
JointsVec(n, dtype) == Array(dtype, <<n>>, [i \in 1..n |-> i])

JointsValues ==
    { JointsVec(n, "float64") : n \in 0..MaxJoints }
    \cup { JointsVec(n, "int64") : n \in {6, 7} }
    \cup { [py |-> "list", dtype |-> "int64", items |-> [i \in 1..n |-> i - 1]] : n \in {6, 7} }
    \cup { Array("float64", <<1, 6>>, [i \in 1..6 |-> i]),
           Array("float64", <<1, 7>>, [i \in 1..7 |-> i]),
           Array("float64", <<>>, <<1>>) }

GripperValues ==
    { Absent,
      [py |-> "float", val |-> 9],
      Array("float64", <<>>, <<9>>),
      Array("float64", <<1>>, <<9>>),
      Array("float64", <<2>>, <<9, 8>>),
      Array("float64", <<1, 1>>, <<9>>) }

\* a float image holds numerators 0..FloatDen (values in [0,1]), an integer
\* image values in 0..255
Image(dtype, shape) ==
    Array(dtype, shape,
          [k \in 1..Prod(shape) |->
              IF IsFloating(dtype) THEN (k - 1) % (FloatDen + 1) ELSE ((k - 1) * 37) % 256])

ImageDTypes == {"uint8", "int64", "float32", "float64"}

ImageShapes ==
    { <<h, w, c>> : h \in 1..MaxDim, w \in 1..MaxDim, c \in {1, 3, 4} }
    \cup { <<3, h, w>> : h \in 1..MaxDim, w \in 1..MaxDim }
    \cup { <<3, 2>>, <<2, 2>>, <<>> }

Images == { Image(d, s) : d \in ImageDTypes, s \in ImageShapes }

BaseImages ==
    { Image(d, s) : d \in {"uint8", "int64", "float32"}, s \in {<<1, 2, 3>>, <<3, 2, 1>>} }
    \cup { Image("float32", <<3, 2>>) }

WristImages == { Image("uint8", <<1, 1, 3>>), Image("float32", <<3, 1, 1>>), Image("uint8", <<>>) }

PromptValues ==
    { Absent,
      Str(<<112, 105>>),
      Bytes(<<99, 195, 169>>),
      Bytes(<<112, 255>>) }

ActionsValues == { Absent, Array("float32", <<1, 7>>, [i \in 1..7 |-> i]) }

Observations ==
    { (KeyJoints :> j) @@ (KeyBase :> b) @@ (KeyWrist :> w)
      @@ Opt(KeyGripper, g) @@ Opt("prompt", p) @@ Opt("actions", a) :
        j \in JointsValues, b \in BaseImages, w \in WristImages,
        g \in GripperValues, p \in PromptValues, a \in ActionsValues }

\* raw actions filled with increasing integers
RawArray(dtype, shape) == Array(dtype, shape, [k \in 1..Prod(shape) |-> k - 1])

RawShapes ==
    { <<t, d>> : t \in 0..MaxSteps, d \in 0..MaxCols }
    \cup { <<t, d, 2>> : t \in 1..MaxSteps, d \in {5, 7, 9} }
    \cup { <<5>>, <<7>>, <<10>>, <<>> }

RawActions == { [actions |-> RawArray(d, s)] : d \in {"float32", "int64"}, s \in RawShapes }

----------------------------------------------------------------------------
(* Specifications *)

Outcome(r) ==
    IF r.status = "returned" THEN [status |-> "returned", value |-> r.value]
    ELSE [status |-> "raised", exc |-> r.exc]

\* The caller has built an observation mapping for a transform of some model
\* type; nothing has been called yet.
Init ==
    /\ model_type \in ModelTypes
    /\ data \in Observations
    /\ passed = data
    /\ inputs = None
    /\ raw_action = None
    /\ robot_action = None
    /\ image_in = None
    /\ image_out = None

\* UR5Inputs.__call__ on the caller's mapping (a first call, or one more call
\* on the same mapping object)
CallInputs ==
    /\ passed' = data
    /\ data' = UR5Inputs_call(model_type, data).data
    /\ inputs' = Outcome(UR5Inputs_call(model_type, data))
    /\ UNCHANGED <<model_type, raw_action, robot_action, image_in, image_out>>

Next == CallInputs

Spec == Init /\ [][Next]_vars

\* The model has produced a raw action.
InitOutputs ==
    /\ model_type = "PI0"
    /\ data = EmptyMap
    /\ passed = EmptyMap
    /\ inputs = None
    /\ raw_action \in RawActions
    /\ robot_action = None
    /\ image_in = None
    /\ image_out = None

\* UR5Outputs.__call__ on the raw action
CallOutputs ==
    /\ robot_action = None
    /\ robot_action' = UR5Outputs_call(raw_action)
    /\ UNCHANGED <<model_type, passed, data, inputs, raw_action, image_in, image_out>>

NextOutputs == CallOutputs

SpecOutputs == InitOutputs /\ [][NextOutputs]_vars

\* An image is at hand.
InitImage ==
    /\ model_type = "PI0"
    /\ data = EmptyMap
    /\ passed = EmptyMap
    /\ inputs = None
    /\ raw_action = None
    /\ robot_action = None
    /\ image_in \in Images
    /\ image_out = None

ParseImage ==
    /\ image_out = None
    /\ image_out' = _parse_image(image_in)
    /\ UNCHANGED <<model_type, passed, data, inputs, raw_action, robot_action, image_in>>

NextImage == ParseImage

SpecImage == InitImage /\ [][NextImage]_vars

----------------------------------------------------------------------------
(* Properties *)

Returned == inputs.status = "returned"
Joints == asarray(passed[KeyJoints])
HasGripper == KeyGripper \in DOMAIN passed
Gripper == asarray(passed[KeyGripper])
GripperIsSingle == Gripper.shape \in {<<>>, <<1>>}
State == inputs.value["state"]

\* C1: whenever UR5Inputs returns a record for 1-D joints of length 6 or 7
\* (gripper absent, a scalar or a length-1 array), the state has length 7.
C1_StateLengthSeven ==
    (Returned /\ ndim(Joints) = 1 /\ Joints.shape[1] \in {6, 7}
        /\ (HasGripper => GripperIsSingle))
    => (State.shape = <<7>> /\ Len(State.flat) = 7)

\* C2: UR5Outputs raises, and returns nothing, for every raw action that is
\* not 2-D or has fewer than 7 columns.
C2_ShapeErrorOnBadRawAction ==
    (robot_action # None
        /\ (ndim(raw_action.actions) # 2 \/ raw_action.actions.shape[2] < 7))
    => robot_action.status = "raised"

\* C3: UR5Inputs raises whenever joints is not 1-D or its length is neither 6
\* nor 7, with or without a gripper field.
C3_ShapeErrorOnBadJoints ==
    (inputs # None /\ (ndim(Joints) # 1 \/ Joints.shape[1] \notin {6, 7}))
    => inputs.status = "raised"

\* C4: a call of UR5Inputs leaves the caller's mapping exactly as it was
\* handed in (a bytes prompt is still bytes).
C4_ArgumentUnchanged == inputs # None => data = passed

C6_FirstSevenColumns ==
    LET a == raw_action.actions
        T == a.shape[1]
        D == a.shape[2]
    IN  (robot_action # None /\ ndim(a) = 2 /\ D >= 7) =>
            /\ robot_action.status = "returned"
            /\ robot_action.value.actions.shape = <<T, 7>>
            /\ Len(robot_action.value.actions.flat) = T * 7
            /\ \A t \in 0..(T - 1), j \in 0..6 :
                   robot_action.value.actions.flat[t * 7 + j + 1] = a.flat[t * D + j + 1]
            /\ (D = 7 => robot_action.value.actions = a)

C6_Witness ==
    /\ robot_action # None
    /\ ndim(raw_action.actions) = 2
    /\ raw_action.actions.shape[1] >= 2
    /\ raw_action.actions.shape[2] > 7
    /\ robot_action.status = "returned"

\* C7: without a gripper field the state is the joints unchanged when there
\* are 7 of them, and the 6 joints followed by one zero when there are 6.
C7_NoGripperState ==
    (Returned /\ ~HasGripper) =>
        /\ Joints.shape[1] \in {6, 7}
        /\ (Joints.shape[1] = 7 => State = Joints)
        /\ (Joints.shape[1] = 6 =>
               /\ State.shape = <<7>>
               /\ State.flat = Joints.flat \o <<0>>)

C7_Witness == Returned /\ ~HasGripper /\ Joints.shape[1] = 6

\* C8: with a gripper value that is a scalar or a length-1 array and 1-D
\* joints of any length, state composition does not fail and the state is the
\* joints followed by that one value, of length len(joints)+1.
C8_GripperAppended ==
    (inputs # None /\ HasGripper /\ GripperIsSingle /\ ndim(Joints) = 1) =>
        /\ (inputs.status = "raised" => inputs.exc # "ValueError")
        /\ (Returned =>
               /\ State.shape = <<Joints.shape[1] + 1>>
               /\ State.flat = Joints.flat \o Gripper.flat)

C8_Witness ==
    /\ Returned /\ HasGripper /\ Gripper.shape = <<>>
    /\ Joints.shape[1] \notin {6, 7}

ImageIn == asarray(image_in)
IsHWC(shape) == Len(shape) = 3 /\ shape[3] = 3
IsCHW(shape) == Len(shape) = 3 /\ shape[1] = 3
PixelsIn(lo, hi) == \A i \in 1..Len(ImageIn.flat) : ImageIn.flat[i] \in lo..hi

\* integer-valued of any integer dtype in [0,255], or floating-point in [0,1]
Admissible ==
    IF IsFloating(ImageIn.dtype) THEN PixelsIn(0, FloatDen) ELSE PixelsIn(0, 255)

\* C9 as stated: every admissible image in layout (H,W,3) or (3,H,W) comes
\* out as uint8; (3,H,W) yields (H,W,3) and (H,W,3) keeps its shape.
C9_ParseImageAsStated ==
    (image_out # None /\ Admissible /\ (IsHWC(ImageIn.shape) \/ IsCHW(ImageIn.shape))) =>
        /\ image_out.ok
        /\ image_out.val.dtype = "uint8"
        /\ (IsCHW(ImageIn.shape) =>
               image_out.val.shape = <<ImageIn.shape[2], ImageIn.shape[3], 3>>)
        /\ (IsHWC(ImageIn.shape) => image_out.val.shape = ImageIn.shape)

\* C9 amended: every image that is uint8 with values in [0,255] or
\* floating-point with values in [0,1] comes out as uint8; (3,H,W) yields
\* (H,W,3), and (H,W,3) with H # 3 keeps its shape.
C9_ParseImage ==
    (image_out # None /\ Admissible
        /\ (ImageIn.dtype = "uint8" \/ IsFloating(ImageIn.dtype))
        /\ (IsHWC(ImageIn.shape) \/ IsCHW(ImageIn.shape))) =>
        /\ image_out.ok
        /\ image_out.val.dtype = "uint8"
        /\ (IsCHW(ImageIn.shape) =>
               image_out.val.shape = <<ImageIn.shape[2], ImageIn.shape[3], 3>>)
        /\ ((IsHWC(ImageIn.shape) /\ ImageIn.shape[1] # 3) =>
               image_out.val.shape = ImageIn.shape)

C9_Witness ==
    /\ image_out # None
    /\ IsFloating(ImageIn.dtype)
    /\ ImageIn.shape = <<3, 2, 1>>
    /\ image_out.ok /\ image_out.val.shape = <<2, 1, 3>>

SlotNames == {"base_0_rgb", "left_wrist_0_rgb", "right_wrist_0_rgb"}

\* C10: every returned record has image and image_mask mappings over the same
\* three slot names, and the right-wrist image is all zeros with the shape of
\* the normalized base image.
C10_Slots ==
    Returned =>
        /\ DOMAIN inputs.value["image"] = SlotNames
        /\ DOMAIN inputs.value["image_mask"] = SlotNames
        /\ inputs.value["image"].base_0_rgb = _parse_image(passed[KeyBase]).val
        /\ inputs.value["image"].right_wrist_0_rgb.shape
               = _parse_image(passed[KeyBase]).val.shape
        /\ Len(inputs.value["image"].right_wrist_0_rgb.flat)
               = Prod(_parse_image(passed[KeyBase]).val.shape)
        /\ \A i \in 1..Len(inputs.value["image"].right_wrist_0_rgb.flat) :
               inputs.value["image"].right_wrist_0_rgb.flat[i] = 0

C10_Witness ==
    /\ Returned
    /\ passed[KeyBase].shape = <<3, 2, 1>>
    /\ inputs.value["image"].right_wrist_0_rgb.shape = <<2, 1, 3>>
    /\ \E i \in 1..Len(inputs.value["image"].base_0_rgb.flat) :
           inputs.value["image"].base_0_rgb.flat[i] # 0

====
